---- MODULE Spec2Model ----
(***************************************************************************)
(* Model of app/main.py: a FastAPI application that mounts a static-file   *)
(* directory under /static, serves static/index.html on GET / and a fixed  *)
(* JSON object on GET /health.                                             *)
(*                                                                         *)
(* A URL path is the sequence of segments that follow its leading slash:   *)
(*   "/"                 = <<"">>                                          *)
(*   "/health"           = <<"health">>                                    *)
(*   "/health/"          = <<"health", "">>                                *)
(*   "/static/a/../b"    = <<"static", "a", "..", "b">>                    *)
(* A filesystem path is the sequence of its components from the root.      *)
(* The file tree is a function from the files of interest to their text,   *)
(* or Absent.  Directories always exist and there are no symbolic links.   *)
(* Only GET requests without conditional headers are modelled.             *)
(***************************************************************************)
EXTENDS Integers, Sequences, FiniteSets, TLC

VARIABLES fs, pc, path, resp, stale, lastHome

vars == <<fs, pc, path, resp, stale, lastHome>>

(* ---------------- bounds ---------------- *)
MaxSegs == 3
MaxConcSegs == 1
NumClients == 2

Clients == 1..NumClients

(* ---------------- the file tree ---------------- *)
\* A file's contents are a sequence of bytes: "h" and "s" stand for ordinary
\* characters, "CR" and "LF" for the two line-ending bytes, "BAD" for a byte
\* that is not valid UTF-8.
Absent == <<"absent">>

BASE_DIR == <<"app">>
STATIC_DIR == BASE_DIR \o <<"static">>
IndexFile == STATIC_DIR \o <<"index.html">>
NestedFile == STATIC_DIR \o <<"docs", "index.html">>
OutsideFile == BASE_DIR \o <<"index.html">>

Files == {IndexFile, NestedFile, OutsideFile}

\* what the deployment may put in each file; only the file outside the
\* static directory ever holds the byte "s"
ContentsOf(f) ==
    IF f = IndexFile THEN {<<"h">>, <<"h", "CR", "LF">>, <<"BAD">>}
    ELSE IF f = NestedFile THEN {<<"h">>, <<"h", "CR", "LF">>}
    ELSE {<<"s">>}

Trees == {t \in [Files -> UNION {ContentsOf(f) : f \in Files} \cup {Absent}] :
            \A f \in Files : t[f] \in ContentsOf(f) \cup {Absent}}

(* ---------------- request paths ---------------- *)
Segs == {"", "..", "static", "health", "index.html", "docs"}

\* segments of the paths of the two handlers defined in main.py
ConcSegs == {"", "health"}

SeqsUpTo(S, n) == UNION {[1..k -> S] : k \in 1..n}

ReqPaths == SeqsUpTo(Segs, MaxSegs)
ConcPaths == SeqsUpTo(ConcSegs, MaxConcSegs)

(* ---------------- os.path ---------------- *)
RECURSIVE NormAbsFrom(_, _)
NormAbsFrom(acc, rest) ==
    IF rest = <<>> THEN acc
    ELSE LET s == Head(rest) IN
         IF s = "" \/ s = "."
         THEN NormAbsFrom(acc, Tail(rest))
         ELSE IF s = ".."
         THEN NormAbsFrom(IF acc = <<>> THEN <<>> ELSE SubSeq(acc, 1, Len(acc) - 1),
                          Tail(rest))
         ELSE NormAbsFrom(Append(acc, s), Tail(rest))

\* os.path.realpath of an absolute path in a tree without symbolic links
realpath(p) == NormAbsFrom(<<>>, p)

RECURSIVE NormRelFrom(_, _)
NormRelFrom(acc, rest) ==
    IF rest = <<>> THEN acc
    ELSE LET s == Head(rest) IN
         IF s = "" \/ s = "."
         THEN NormRelFrom(acc, Tail(rest))
         ELSE IF s = ".."
         THEN NormRelFrom(IF acc # <<>> /\ acc[Len(acc)] # ".."
                          THEN SubSeq(acc, 1, Len(acc) - 1)
                          ELSE Append(acc, ".."),
                          Tail(rest))
         ELSE NormRelFrom(Append(acc, s), Tail(rest))

\* os.path.normpath of a relative path
normpath(p) == LET n == NormRelFrom(<<>>, p) IN IF n = <<>> THEN <<".">> ELSE n

IsPrefix(d, p) == Len(d) <= Len(p) /\ SubSeq(p, 1, Len(d)) = d

\* variant: the containment test always passes
commonpath_unchecked(p, d) == TRUE

\* os.path.commonpath([p, d]) == d
commonpath_is(p, d) == IsPrefix(d, p)

(* ---------------- responses ---------------- *)
\* A response: its status, its body (a byte sequence) and, for the record,
\* the endpoint that produced it ("none" when the router itself answered).
Response(s, b, h) == [status |-> s, body |-> b, handler |-> h]

NoResp == Response(0, <<>>, "none")
\* value of lastHome before any page was served
NoBody == <<"nothing served">>
StatusOk == <<"{\"status\": \"ok\"}">>
NotFoundBody == <<"Not Found">>
ServerErrorBody == <<"Internal Server Error">>
DocsBody == <<"docs">>

NotFound(h) == Response(404, NotFoundBody, h)
ServerError(h) == Response(500, ServerErrorBody, h)
Redirect == Response(307, <<>>, "none")

(* ---------------- text-mode read ---------------- *)
\* bytes.decode("utf-8") succeeds
Decodable(bytes) == \A i \in 1..Len(bytes) : bytes[i] # "BAD"

\* universal newlines of open(..., "r"): CR LF and a lone CR are read as LF
RECURSIVE TranslateNewlines(_)
TranslateNewlines(t) ==
    IF t = <<>> THEN <<>>
    ELSE IF Head(t) = "CR"
    THEN IF Len(t) >= 2 /\ t[2] = "LF"
         THEN <<"LF">> \o TranslateNewlines(Tail(Tail(t)))
         ELSE <<"LF">> \o TranslateNewlines(Tail(t))
    ELSE <<Head(t)>> \o TranslateNewlines(Tail(t))

(* ---------------- the endpoints ---------------- *)
\* variant: the index file is read under a lock that a second request in
\* flight finds taken
home_locked(tree) ==
    IF Cardinality({d \in Clients : pc[d] = "received"}) > 1 THEN ServerError("home")
    ELSE IF tree[IndexFile] = Absent THEN ServerError("home")
    ELSE IF ~Decodable(tree[IndexFile]) THEN ServerError("home")
    ELSE Response(200, TranslateNewlines(tree[IndexFile]), "home")

\* variant: the last page served is kept and served when the file is gone
home_cached(tree) ==
    IF tree[IndexFile] = Absent
    THEN IF lastHome # NoBody THEN Response(200, lastHome, "home") ELSE ServerError("home")
    ELSE IF ~Decodable(tree[IndexFile]) THEN ServerError("home")
    ELSE Response(200, TranslateNewlines(tree[IndexFile]), "home")

\* def home(): open(STATIC_DIR/index.html, "r", encoding="utf-8").read(),
\* sent as an HTMLResponse; an exception of open or read is a 500.
home(tree) ==
    IF tree[IndexFile] = Absent THEN ServerError("home")
    ELSE IF ~Decodable(tree[IndexFile]) THEN ServerError("home")
    ELSE Response(200, TranslateNewlines(tree[IndexFile]), "home")

\* variant: the health check probes the index file
health_checks_index ==
    IF fs[IndexFile] = Absent THEN ServerError("health")
    ELSE Response(200, StatusOk, "health")

\* def health(): return {"status": "ok"}
health == Response(200, StatusOk, "health")

\* StaticFiles.get_path: normpath of the path below the mount point
get_path(rest) == normpath(rest)

None == <<"None">>

\* StaticFiles.lookup_path: the file must lie inside the directory and exist
lookup_path(tree, rel) ==
    LET full == realpath(STATIC_DIR \o rel)
        directory == realpath(STATIC_DIR)
    IN  IF ~commonpath_is(full, directory) THEN None
        ELSE IF full \in Files /\ tree[full] # Absent THEN full
        ELSE None

\* variant: html=True, a directory is answered with the index page
static_html(tree, rest) ==
    LET full == lookup_path(tree, get_path(rest))
    IN  IF full # None THEN Response(200, tree[full], "static")
        ELSE IF realpath(STATIC_DIR \o get_path(rest)) = STATIC_DIR /\ tree[IndexFile] # Absent
        THEN Response(200, tree[IndexFile], "static")
        ELSE NotFound("static")

\* variant: the file is read in text mode
static_text(tree, rest) ==
    LET full == lookup_path(tree, get_path(rest))
    IN  IF full = None THEN NotFound("static")
        ELSE Response(200, TranslateNewlines(tree[full]), "static")

\* StaticFiles(directory=STATIC_DIR), html=False: a regular file is sent as
\* it is on disk, anything else is a 404
static(tree, rest) ==
    LET full == lookup_path(tree, get_path(rest))
    IN  IF full = None THEN NotFound("static")
        ELSE Response(200, tree[full], "static")

(* ---------------- routing ---------------- *)
\* routes that FastAPI() registers by itself
DocsPaths == {<<"openapi.json">>, <<"docs">>, <<"docs", "oauth2-redirect">>, <<"redoc">>}

MatchDocs(p) == p \in DocsPaths
\* variant: the directory is mounted at the root
MatchMount_root(p) == Len(p) >= 1
\* app.mount("/static", ...): the path matches ^/static/(?P<path>.*)$
MatchMount(p) == Len(p) >= 2 /\ p[1] = "static"
\* @app.get("/")
MatchHome(p) == p = <<"">>
\* @app.get("/health")
MatchHealth(p) == p = <<"health">>

MatchAny(p) == MatchDocs(p) \/ MatchMount(p) \/ MatchHome(p) \/ MatchHealth(p)

\* str.rstrip("/") on the path
RECURSIVE RStripSlash(_)
RStripSlash(p) ==
    IF Len(p) >= 1 /\ p[Len(p)] = ""
    THEN RStripSlash(SubSeq(p, 1, Len(p) - 1))
    ELSE p

\* the router's redirect_slashes: the path with its trailing slash toggled
SlashToggled(p) == IF p[Len(p)] = "" THEN RStripSlash(p) ELSE Append(p, "")

\* the application: the first matching route in registration order, then the
\* trailing-slash redirect, then the default 404
app(tree, p) ==
    IF MatchDocs(p) THEN Response(200, DocsBody, "docs")
    ELSE IF MatchMount(p) THEN static(tree, Tail(p))
    ELSE IF MatchHome(p) THEN home(tree)
    ELSE IF MatchHealth(p) THEN health
    ELSE IF p # <<"">> /\ SlashToggled(p) # <<>> /\ MatchAny(SlashToggled(p)) THEN Redirect
    ELSE NotFound("none")

\* variant: home opens the index file for writing, which truncates it
tree_after_truncate(tree, p) == IF MatchHome(p) THEN [tree EXCEPT ![IndexFile] = <<>>] ELSE tree

\* the file tree after the application answered p: home opens the index
\* file for reading and StaticFiles only stats and reads, so nothing is written
tree_after(tree, p) == tree

(* ---------------- the state machine ---------------- *)

TypeOK ==
    /\ fs \in Trees
    /\ pc \in [Clients -> {"idle", "received", "done"}]
    /\ path \in [Clients -> ReqPaths \cup {<<>>}]
    /\ stale \in [Clients -> BOOLEAN]
    /\ \A c \in Clients : resp[c].status \in {0, 200, 307, 404, 500}

Init ==
    /\ fs \in Trees
    /\ pc = [c \in Clients |-> "idle"]
    /\ path = [c \in Clients |-> <<>>]
    /\ resp = [c \in Clients |-> NoResp]
    /\ stale = [c \in Clients |-> FALSE]
    /\ lastHome = NoBody

\* a GET request for path p arrives on connection c
Receive(c, p) ==
    /\ pc[c] = "idle"
    /\ pc' = [pc EXCEPT ![c] = "received"]
    /\ path' = [path EXCEPT ![c] = p]
    /\ UNCHANGED <<fs, resp, stale, lastHome>>

\* the application answers the request of connection c
Handle(c) ==
    /\ pc[c] = "received"
    /\ LET r == app(fs, path[c]) IN
        /\ resp' = [resp EXCEPT ![c] = r]
        /\ lastHome' = IF r.handler = "home" /\ r.status = 200 THEN r.body ELSE lastHome
    /\ pc' = [pc EXCEPT ![c] = "done"]
    /\ fs' = tree_after(fs, path[c])
    /\ stale' = [d \in Clients |-> IF d = c THEN FALSE
                                   ELSE stale[d] \/ (pc[d] = "done" /\ fs' # fs)]
    /\ UNCHANGED path

\* the client of connection c has read the response
Complete(c) ==
    /\ pc[c] = "done"
    /\ pc' = [pc EXCEPT ![c] = "idle"]
    /\ path' = [path EXCEPT ![c] = <<>>]
    /\ resp' = [resp EXCEPT ![c] = NoResp]
    /\ stale' = [stale EXCEPT ![c] = FALSE]
    /\ UNCHANGED <<fs, lastHome>>

MarkStale == [c \in Clients |-> pc[c] = "done"]

\* the deployment writes a file of the tree (the server never does)
WriteFile(f, v) ==
    /\ fs[f] # v
    /\ fs' = [fs EXCEPT ![f] = v]
    /\ stale' = MarkStale
    /\ UNCHANGED <<pc, path, resp, lastHome>>

\* the deployment removes a file of the tree
RemoveFile(f) ==
    /\ fs[f] # Absent
    /\ fs' = [fs EXCEPT ![f] = Absent]
    /\ stale' = MarkStale
    /\ UNCHANGED <<pc, path, resp, lastHome>>

\* one connection, one request at a time, paths of up to MaxSegs segments,
\* the deployment changing the file tree at any moment
Next ==
    \/ \E p \in ReqPaths : Receive(1, p)
    \/ Handle(1)
    \/ Complete(1)
    \/ \E f \in Files : \E v \in ContentsOf(f) : WriteFile(f, v)
    \/ \E f \in Files : RemoveFile(f)

Spec == Init /\ [][Next]_vars

\* requests in flight on every connection at once, paths of up to
\* MaxConcSegs segments, over a file tree that does not change
NextConc ==
    \/ \E c \in Clients, p \in ConcPaths : Receive(c, p)
    \/ \E c \in Clients : Handle(c)
    \/ \E c \in Clients : Complete(c)

SpecConc == Init /\ [][NextConc]_vars

(* ======================= properties ======================= *)
\* connection c holds a response computed from the file tree as it is now
Held(c) == pc[c] = "done" /\ ~stale[c]

\* where the part of a /static/... path below the mount point leads
Resolved(p) == realpath(STATIC_DIR \o Tail(p))
UnderStatic(p) == Len(p) >= 2 /\ p[1] = "static"
Inside(q) == IsPrefix(STATIC_DIR, q)
ExistingFile(q) == q \in Files /\ fs[q] # Absent
Contains(body, b) == \E i \in 1..Len(body) : body[i] = b

\* C1: whatever happened before and whatever the file tree holds, the
\* response to GET /health is 200 with body {"status": "ok"}
C1_HealthAlwaysOk ==
    \A c \in Clients :
        pc[c] = "done" /\ path[c] = <<"health">>
            => resp[c].status = 200 /\ resp[c].body = StatusOk

C1_Witness ==
    /\ pc[1] = "done" /\ path[1] = <<"health">>
    /\ fs[IndexFile] = Absent
    /\ lastHome # NoBody

\* C2 (as claimed): GET / answers 200 with a body equal to the contents the
\* index file has at the time of the request
C2_BodyIsFileContents ==
    \A c \in Clients :
        Held(c) /\ path[c] = <<"">> /\ fs[IndexFile] # Absent /\ Decodable(fs[IndexFile])
            => resp[c].status = 200 /\ resp[c].body = fs[IndexFile]

\* C3: when the index file is absent or cannot be decoded, GET / is answered
\* with a 500 whose body is the error text, never a 200 and never a page
\* served earlier
C3_MissingIndexIs500 ==
    \A c \in Clients :
        Held(c) /\ path[c] = <<"">> /\ (fs[IndexFile] = Absent \/ ~Decodable(fs[IndexFile]))
            => resp[c].status = 500 /\ resp[c].body = ServerErrorBody

C3_Witness ==
    /\ Held(1) /\ path[1] = <<"">>
    /\ fs[IndexFile] = Absent
    /\ lastHome # NoBody
    /\ resp[1].status = 500

\* C4: a /static/<path> request whose <path> resolves outside the static
\* directory is answered 403 or 404, never 200, and its body holds no byte of
\* the file outside the directory
C4_NoTraversal ==
    \A c \in Clients :
        pc[c] = "done" /\ UnderStatic(path[c]) /\ ~Inside(Resolved(path[c]))
            => /\ resp[c].status \in {403, 404}
               /\ ~Contains(resp[c].body, "s")

C4_Witness ==
    /\ pc[1] = "done"
    /\ path[1] = <<"static", "..", "index.html">>
    /\ fs[OutsideFile] = <<"s">>
    /\ resp[1].status = 404

\* C5: a /static/<path> request whose <path> names an existing file under the
\* static directory is answered 200 with exactly the bytes the file holds
C5_StaticByteIdentical ==
    \A c \in Clients :
        Held(c) /\ UnderStatic(path[c]) /\ Inside(Resolved(path[c]))
                /\ ExistingFile(Resolved(path[c]))
            => resp[c].status = 200 /\ resp[c].body = fs[Resolved(path[c])]

C5_Witness ==
    /\ Held(1)
    /\ path[1] = <<"static", "docs", "index.html">>
    /\ fs[NestedFile] = <<"h", "CR", "LF">>
    /\ resp[1].body = <<"h", "CR", "LF">>

\* C6 (as claimed): a /static/<path> request resolving inside the directory to
\* no existing file is a 404, and so is every request whose path is not "/",
\* not "/health" and does not start with /static
C6_UnmatchedIs404 ==
    \A c \in Clients :
        Held(c) =>
            /\ (UnderStatic(path[c]) /\ Inside(Resolved(path[c]))
                    /\ ~ExistingFile(Resolved(path[c]))
                => resp[c].status = 404)
            /\ (path[c] # <<"">> /\ path[c] # <<"health">> /\ path[c][1] # "static"
                => resp[c].status = 404)

\* paths that become a route when their trailing slash is toggled
Redirected(p) ==
    \/ p[Len(p)] = "" /\ RStripSlash(p) \in {<<"health">>} \cup DocsPaths
    \/ p = <<"static">>

\* C6 (amended): a /static/<path> request resolving inside the directory to
\* no existing file is a 404; a request whose path is none of "/", "/health",
\* a path under /static/ or a documentation route of the framework is a 307
\* redirect when toggling its trailing slash gives one of those, else a 404
C6_UnmatchedIs404OrRedirect ==
    \A c \in Clients :
        Held(c) =>
            /\ (UnderStatic(path[c]) /\ Inside(Resolved(path[c]))
                    /\ ~ExistingFile(Resolved(path[c]))
                => resp[c].status = 404)
            /\ (path[c] # <<"">> /\ path[c] # <<"health">> /\ ~UnderStatic(path[c])
                    /\ path[c] \notin DocsPaths
                => resp[c].status = IF Redirected(path[c]) THEN 307 ELSE 404)

C6_Witness ==
    /\ Held(1)
    /\ path[1] = <<"static", "docs", "">>
    /\ fs[NestedFile] # Absent
    /\ resp[1].status = 404

\* C7 (as claimed): every request is dispatched to one of the three
\* behaviours: the static mount, the home handler or the health handler
C7_EveryRequestDispatched ==
    \A c \in Clients :
        pc[c] = "done" => resp[c].handler \in {"static", "home", "health"}

\* C7 (amended): a request is handled by the static mount exactly when its
\* path is under /static/, by the home handler exactly when its path is "/",
\* by the health handler exactly when its path is "/health"; these three sets
\* of paths are disjoint and every other path is handled by none of the three
C7_DispatchByPath ==
    \A c \in Clients :
        pc[c] = "done" =>
            /\ (resp[c].handler = "static") = UnderStatic(path[c])
            /\ (resp[c].handler = "home") = (path[c] = <<"">>)
            /\ (resp[c].handler = "health") = (path[c] = <<"health">>)

C7_Witness ==
    /\ pc[1] = "done"
    /\ path[1] = <<"static", "health">>
    /\ resp[1].handler = "static"

\* a step of the server: a request arrives, is answered, or is read
RequestStep == \E c \in Clients : pc'[c] # pc[c]

\* C8: no step of the server on any request changes the file tree
C8_RequestsDoNotWrite == [][RequestStep => fs' = fs]_vars

C8_Witness ==
    /\ pc[1] = "done" /\ path[1] = <<"">>
    /\ resp[1].status = 200
    /\ fs[IndexFile] # Absent

C10_HomeIsStaticIndex ==
    \A c \in Clients :
        Held(c) =>
            /\ (path[c] \in {<<"">>, <<"static", "index.html">>}
                    /\ fs[IndexFile] # Absent /\ Decodable(fs[IndexFile])
                => resp[c].status = 200 /\ resp[c].body = fs[IndexFile])
            /\ (path[c] = <<"">> /\ fs[IndexFile] = Absent => resp[c].status = 500)
            /\ (path[c] = <<"static", "index.html">> /\ fs[IndexFile] = Absent
                => resp[c].status = 404)

====
